---- MODULE Spec2Model ----
(***************************************************************************)
(* Transactional core of the hackernews clone: posts, threaded comments,   *)
(* vote toggles and the derived counters (points, commentCount), as the    *)
(* route handlers of src/server/routes/posts.ts and comments.ts drive a    *)
(* PostgreSQL database through drizzle (src/server/adapter.ts).            *)
(*                                                                         *)
(* db.transaction() is called without an isolation level, so every         *)
(* transaction runs READ COMMITTED: a statement sees the rows committed    *)
(* when it starts plus the transaction's own writes, an UPDATE takes the   *)
(* row's lock until commit or rollback and is evaluated on the latest      *)
(* committed version of the row, and nothing a transaction wrote is seen   *)
(* by another before it commits.  Each awaited statement is one step.      *)
(***************************************************************************)
EXTENDS Integers, Sequences, FiniteSets, TLC

(* ------------------------------ bounds --------------------------------- *)
NumTx == 2
MaxOps == 2
MaxPosts == 1
MaxComments == 3

NULL == 0
Users == {"alice", "bob"}
Txs == 1..NumTx

VARIABLES
    postsTable,            \* id -> row of table posts
    commentsTable,         \* id -> row of table comments
    postUpvotesTable,      \* set of rows [id, postId, userId]
    commentUpvotesTable,   \* set of rows [id, commentId, userId]
    serial,                \* the serial sequences behind the id columns
    tx,                    \* the request handlers in flight, one per slot
    clock,                 \* the time now() reads: it ticks when a row is dated
    hist                   \* history of the answers given (read by no handler)

vars == <<postsTable, commentsTable, postUpvotesTable, commentUpvotesTable,
          serial, tx, clock, hist>>

(* ------------------------------ rows ----------------------------------- *)
\* postsTable row; points and commentCount default to 0
NewPost(userId, url, content, now) ==
    [userId |-> userId, url |-> url, content |-> content,
     points |-> 0, commentCount |-> 0, createdAt |-> now]

\* commentsTable row: depth, commentCount and points default to 0,
\* parentCommentId to NULL, createdAt to now()
CommentDefaults(userId, postId, now) ==
    [userId |-> userId, postId |-> postId, parentCommentId |-> NULL,
     depth |-> 0, commentCount |-> 0, points |-> 0, createdAt |-> now]

(* --------------------------- handler slots ----------------------------- *)
IdleTx ==
    [kind |-> "none", pc |-> "idle", id |-> 0, user |-> "", startedAt |-> 0,
     existingUpvote |-> <<>>, pointChange |-> 1, updated |-> <<>>,
     parentComment |-> <<>>, updateParentComment |-> <<>>,
     wPosts |-> <<>>, wComments |-> <<>>, insUp |-> {}, delUp |-> {},
     query |-> <<>>, count |-> <<>>,
     status |-> 0, data |-> <<>>]

Free(t) == tx[t].pc \in {"idle", "done"}
InFlight(t) == ~Free(t)

\* a request takes the lowest free slot (the slots are interchangeable)
LowestFree(t) == Free(t) /\ \A o \in Txs : o < t => InFlight(o)

\* the handler has answered: its status and its data are what is left of it
Done(t, status, data) ==
    [IdleTx EXCEPT !.pc = "done", !.status = status, !.data = data]

(* ---------------- the database as a transaction sees it ---------------- *)
\* committed rows overlaid with the transaction's own uncommitted writes
VisiblePosts(t) == tx[t].wPosts @@ postsTable
VisibleComments(t) == tx[t].wComments @@ commentsTable
VisiblePostUpvotes(t) ==
    IF tx[t].kind = "postUpvote"
    THEN {r \in postUpvotesTable : r.id \notin tx[t].delUp} \cup tx[t].insUp
    ELSE postUpvotesTable
VisibleCommentUpvotes(t) ==
    IF tx[t].kind = "commentUpvote"
    THEN {r \in commentUpvotesTable : r.id \notin tx[t].delUp} \cup tx[t].insUp
    ELSE commentUpvotesTable

\* .limit(1) and the array destructuring const [x] = ...: any one of the
\* matching rows, or the empty result
Limit1(rows) == IF rows = {} THEN {<<>>} ELSE {<<r>> : r \in rows}

CommentNeverLocked(t, id) == FALSE

PostNeverLocked(t, id) == FALSE

\* a committed row another transaction has updated and not yet committed:
\* an UPDATE of it waits
PostLocked(t, id) ==
    /\ id \in DOMAIN postsTable
    /\ \E o \in Txs \ {t} : InFlight(o) /\ id \in DOMAIN tx[o].wPosts

CommentLocked(t, id) ==
    /\ id \in DOMAIN commentsTable
    /\ \E o \in Txs \ {t} : InFlight(o) /\ id \in DOMAIN tx[o].wComments

\* a vote row another transaction has deleted and not yet committed
UpvoteLocked(t, kind, id) ==
    \E o \in Txs \ {t} : InFlight(o) /\ tx[o].kind = kind /\ id \in tx[o].delUp

NoUniquePair == FALSE

\* the vote ledgers' unique (entity, user) pair
UniquePair == TRUE

PostUpvoteInsertWaitsForComments(t, postId, userId) ==
    \E c \in DOMAIN commentsTable :
       commentsTable[c].postId = postId /\ CommentLocked(t, c)

\* an INSERT of (postId, userId) waits for an uncommitted row of the same pair
PostUpvoteInsertWaits(t, postId, userId) ==
    /\ UniquePair
    /\ \E o \in Txs \ {t} :
          /\ InFlight(o) /\ tx[o].kind = "postUpvote"
          /\ \/ \E r \in tx[o].insUp : r.postId = postId /\ r.userId = userId
             \/ \E r \in postUpvotesTable :
                   r.postId = postId /\ r.userId = userId /\ r.id \in tx[o].delUp

\* ... and fails on a row of the same pair that is there
PostUpvoteDuplicate(t, postId, userId) ==
    /\ UniquePair
    /\ \E r \in VisiblePostUpvotes(t) : r.postId = postId /\ r.userId = userId

CommentUpvoteInsertWaits(t, commentId, userId) ==
    /\ UniquePair
    /\ \E o \in Txs \ {t} :
          /\ InFlight(o) /\ tx[o].kind = "commentUpvote"
          /\ \/ \E r \in tx[o].insUp : r.commentId = commentId /\ r.userId = userId
             \/ \E r \in commentUpvotesTable :
                   r.commentId = commentId /\ r.userId = userId /\ r.id \in tx[o].delUp
CommentUpvoteDuplicate(t, commentId, userId) ==
    /\ UniquePair
    /\ \E r \in VisibleCommentUpvotes(t) : r.commentId = commentId /\ r.userId = userId

\* COMMIT: the transaction's writes become the committed rows
CommitWrites(t) ==
    /\ postsTable' = tx[t].wPosts @@ postsTable
    /\ commentsTable' = tx[t].wComments @@ commentsTable
    /\ postUpvotesTable' =
          IF tx[t].kind = "postUpvote"
          THEN {r \in postUpvotesTable : r.id \notin tx[t].delUp} \cup tx[t].insUp
          ELSE postUpvotesTable
    /\ commentUpvotesTable' =
          IF tx[t].kind = "commentUpvote"
          THEN {r \in commentUpvotesTable : r.id \notin tx[t].delUp} \cup tx[t].insUp
          ELSE commentUpvotesTable

RollbackKeepsWrites(t, status) ==
    /\ tx' = [tx EXCEPT ![t] = Done(t, status, <<>>)]
    /\ CommitWrites(t)

\* ROLLBACK (a throw inside the callback): the writes are dropped and the
\* handler answers with the error's status
Rollback(t, status) ==
    /\ tx' = [tx EXCEPT ![t] = Done(t, status, <<>>)]
    /\ UNCHANGED <<postsTable, commentsTable, postUpvotesTable, commentUpvotesTable>>

Tables == <<postsTable, commentsTable, postUpvotesTable, commentUpvotesTable>>

(* --------------------- POST /posts/:id/upvote -------------------------- *)
PointChangeAlwaysUp(existingUpvote) == 1

\* pointChange = existingUpvote ? -1 : 1
PointChange(existingUpvote) == IF existingUpvote # <<>> THEN -1 ELSE 1

NewPointsIncrementOnly(points, pointChange) == points + 1

NotFoundNeverThrown(updated) == FALSE

\* if (!updated) throw new HTTPException(404, ...)
NotFound(updated) == updated = <<>>

\* set commentCount = commentCount + 1
IncrementCommentCount(commentCount) == commentCount + 1

\* set points = points + pointChange
NewPoints(points, pointChange) == points + pointChange

\* the handler is entered and the transaction's first statement, the
\* lookup of the user's vote, runs (BEGIN itself touches nothing)
PostUpvoteSelect(t, id, user) ==
    /\ LowestFree(t)
    /\ \E existingUpvote \in
            Limit1({r \in postUpvotesTable : r.postId = id /\ r.userId = user}) :
          tx' = [tx EXCEPT ![t] =
                    [IdleTx EXCEPT !.kind = "postUpvote", !.id = id, !.user = user,
                                   !.existingUpvote = existingUpvote,
                                   !.pointChange = PointChange(existingUpvote),
                                   !.pc = "update"]]
    /\ UNCHANGED <<Tables, serial, clock>>

PostUpvoteUpdate(t) ==
    /\ tx[t].kind = "postUpvote" /\ tx[t].pc = "update"
    /\ ~PostLocked(t, tx[t].id)
    /\ LET found == tx[t].id \in DOMAIN VisiblePosts(t)
           row == [VisiblePosts(t)[tx[t].id] EXCEPT
                      !.points = NewPoints(@, tx[t].pointChange)]
           updated == IF found THEN <<[points |-> row.points]>> ELSE <<>>
       IN  IF NotFound(updated)
           THEN Rollback(t, 404)
           ELSE /\ tx' = [tx EXCEPT ![t].wPosts =
                                        IF found THEN (tx[t].id :> row) @@ @ ELSE @,
                                    ![t].updated = updated,
                                    ![t].pc = "write"]
                /\ UNCHANGED Tables
    /\ UNCHANGED <<serial, clock>>

PostUpvoteDeletedOfPost(t) ==
    {r.id : r \in {x \in VisiblePostUpvotes(t) : x.postId = tx[t].id}}

\* tx.delete(postUpvotesTable).where(eq(postUpvotesTable.id, existingUpvote.id)):
\* the ids of the rows the statement deletes
PostUpvoteDeleted(t) ==
    {r.id : r \in {x \in VisiblePostUpvotes(t) :
                      x.id = tx[t].existingUpvote[1].id}}

PostUpvoteWrite(t) ==
    /\ tx[t].kind = "postUpvote" /\ tx[t].pc = "write"
    /\ IF tx[t].existingUpvote # <<>>
       THEN /\ ~UpvoteLocked(t, "postUpvote", tx[t].existingUpvote[1].id)
            /\ tx' = [tx EXCEPT ![t].delUp = @ \cup PostUpvoteDeleted(t),
                                ![t].pc = "commit"]
            /\ UNCHANGED <<Tables, serial>>
       ELSE /\ ~PostUpvoteInsertWaits(t, tx[t].id, tx[t].user)
            /\ serial' = [serial EXCEPT !.postUpvotes = @ + 1]
            /\ IF PostUpvoteDuplicate(t, tx[t].id, tx[t].user)
               THEN Rollback(t, 500)
               ELSE /\ tx' = [tx EXCEPT ![t].insUp =
                                 @ \cup {[id |-> serial.postUpvotes + 1,
                                          postId |-> tx[t].id,
                                          userId |-> tx[t].user]},
                                        ![t].pc = "commit"]
                    /\ UNCHANGED Tables
    /\ UNCHANGED clock

PostUpvoteCommit(t) ==
    /\ tx[t].kind = "postUpvote" /\ tx[t].pc = "commit"
    /\ CommitWrites(t)
    /\ tx' = [tx EXCEPT ![t] =
                 Done(t, 200, <<[count |-> tx[t].updated[1].points,
                                 isUpvoted |-> tx[t].pointChange > 0]>>)]
    /\ UNCHANGED <<serial, clock>>

(* -------------------- POST /comments/:id/upvote ------------------------ *)
CommentUpvoteSelect(t, id, user) ==
    /\ LowestFree(t)
    /\ \E existingUpvote \in
            Limit1({r \in commentUpvotesTable :
                       r.commentId = id /\ r.userId = user}) :
          tx' = [tx EXCEPT ![t] =
                    [IdleTx EXCEPT !.kind = "commentUpvote", !.id = id,
                                   !.user = user,
                                   !.existingUpvote = existingUpvote,
                                   !.pointChange = PointChange(existingUpvote),
                                   !.pc = "update"]]
    /\ UNCHANGED <<Tables, serial, clock>>

CommentUpvoteUpdate(t) ==
    /\ tx[t].kind = "commentUpvote" /\ tx[t].pc = "update"
    /\ ~CommentLocked(t, tx[t].id)
    /\ LET found == tx[t].id \in DOMAIN VisibleComments(t)
           row == [VisibleComments(t)[tx[t].id] EXCEPT
                      !.points = NewPoints(@, tx[t].pointChange)]
           updated == IF found THEN <<[points |-> row.points]>> ELSE <<>>
       IN  IF NotFound(updated)
           THEN Rollback(t, 404)
           ELSE /\ tx' = [tx EXCEPT ![t].wComments =
                                        IF found THEN (tx[t].id :> row) @@ @ ELSE @,
                                    ![t].updated = updated,
                                    ![t].pc = "write"]
                /\ UNCHANGED Tables
    /\ UNCHANGED <<serial, clock>>

CommentUpvoteWrite(t) ==
    /\ tx[t].kind = "commentUpvote" /\ tx[t].pc = "write"
    /\ IF tx[t].existingUpvote # <<>>
       THEN /\ ~UpvoteLocked(t, "commentUpvote", tx[t].existingUpvote[1].id)
            /\ tx' = [tx EXCEPT ![t].delUp =
                         @ \cup {r.id : r \in {x \in VisibleCommentUpvotes(t) :
                                      x.id = tx[t].existingUpvote[1].id}},
                                ![t].pc = "commit"]
            /\ UNCHANGED <<Tables, serial>>
       ELSE /\ ~CommentUpvoteInsertWaits(t, tx[t].id, tx[t].user)
            /\ serial' = [serial EXCEPT !.commentUpvotes = @ + 1]
            /\ IF CommentUpvoteDuplicate(t, tx[t].id, tx[t].user)
               THEN Rollback(t, 500)
               ELSE /\ tx' = [tx EXCEPT ![t].insUp =
                                 @ \cup {[id |-> serial.commentUpvotes + 1,
                                          commentId |-> tx[t].id,
                                          userId |-> tx[t].user]},
                                        ![t].pc = "commit"]
                    /\ UNCHANGED Tables
    /\ UNCHANGED clock

CommentUpvoteCommit(t) ==
    /\ tx[t].kind = "commentUpvote" /\ tx[t].pc = "commit"
    /\ CommitWrites(t)
    /\ tx' = [tx EXCEPT ![t] =
                 Done(t, 200, <<[count |-> tx[t].updated[1].points,
                                 commentUpvotes |->
                                    IF tx[t].pointChange = 1
                                    THEN <<[userId |-> tx[t].user]>>
                                    ELSE <<>>]>>)]
    /\ UNCHANGED <<serial, clock>>

(* ----------------------- POST /posts/:id/comments ---------------------- *)
\* comment transactions begun and not finished, with the rows inserted so
\* far: what bounds the comments table
CommentsBegun ==
    serial.comments
    + Cardinality({o \in Txs : InFlight(o) /\ tx[o].kind \in {"postComment", "reply"}
                                /\ tx[o].pc # "commit"})

BeginPostComment(t, id, user) ==
    /\ LowestFree(t)
    /\ clock' = clock + 1
    /\ tx' = [tx EXCEPT ![t] = [IdleTx EXCEPT !.kind = "postComment",
                                  !.pc = "updatePost", !.id = id, !.user = user,
                                  !.startedAt = clock + 1]]
    /\ UNCHANGED <<Tables, serial>>

PostCommentUpdate(t) ==
    /\ tx[t].kind = "postComment" /\ tx[t].pc = "updatePost"
    /\ ~PostLocked(t, tx[t].id)
    /\ LET found == tx[t].id \in DOMAIN VisiblePosts(t)
           row == [VisiblePosts(t)[tx[t].id] EXCEPT
                      !.commentCount = IncrementCommentCount(@)]
           updated == IF found THEN <<[commentCount |-> row.commentCount]>>
                      ELSE <<>>
       IN  IF NotFound(updated)
           THEN Rollback(t, 404)
           ELSE /\ tx' = [tx EXCEPT ![t].wPosts =
                                        IF found THEN (tx[t].id :> row) @@ @ ELSE @,
                                    ![t].updated = updated,
                                    ![t].pc = "insert"]
                /\ UNCHANGED Tables
    /\ UNCHANGED <<serial, clock>>

PostCommentValuesAsReply(t) ==
    [CommentDefaults(tx[t].user, tx[t].id, tx[t].startedAt) EXCEPT !.depth = 1]

\* .values({ userId, postId: id, content }): the other columns default
PostCommentValues(t) == CommentDefaults(tx[t].user, tx[t].id, tx[t].startedAt)

PostCommentInsert(t) ==
    /\ tx[t].kind = "postComment" /\ tx[t].pc = "insert"
    /\ serial' = [serial EXCEPT !.comments = @ + 1]
    /\ tx' = [tx EXCEPT ![t].wComments =
                 ((serial.comments + 1) :> PostCommentValues(t)) @@ @,
                        ![t].data = <<serial.comments + 1>>,
                        ![t].pc = "commit"]
    /\ UNCHANGED <<Tables, clock>>

\* the comment the handler answers with: the inserted row and its id
Returned(t) ==
    <<[id |-> tx[t].data[1]] @@ tx[t].wComments[tx[t].data[1]]>>

PostCommentCommit(t) ==
    /\ tx[t].kind = "postComment" /\ tx[t].pc = "commit"
    /\ CommitWrites(t)
    /\ tx' = [tx EXCEPT ![t] = Done(t, 200, Returned(t))]
    /\ UNCHANGED <<serial, clock>>

(* -------------------------- POST /comments/:id ------------------------- *)
ParentAlwaysFound(parentComment) == FALSE

\* if (!parentComment) throw new HTTPException(404, ...)
ParentMissing(parentComment) == parentComment = <<>>

BeginReply(t, id, user) ==
    /\ LowestFree(t)
    /\ clock' = clock + 1
    /\ tx' = [tx EXCEPT ![t] = [IdleTx EXCEPT !.kind = "reply",
                                  !.pc = "selectParent", !.id = id, !.user = user,
                                  !.startedAt = clock + 1]]
    /\ UNCHANGED <<Tables, serial>>

ReplySelectParent(t) ==
    /\ tx[t].kind = "reply" /\ tx[t].pc = "selectParent"
    /\ LET parentComment ==
               IF tx[t].id \in DOMAIN VisibleComments(t)
               THEN <<[id |-> tx[t].id,
                       postId |-> VisibleComments(t)[tx[t].id].postId,
                       depth |-> VisibleComments(t)[tx[t].id].depth]>>
               ELSE <<>>
       IN  IF ParentMissing(parentComment)
           THEN Rollback(t, 404)
           ELSE /\ tx' = [tx EXCEPT ![t].parentComment = parentComment,
                                    ![t].pc = "updateParent"]
                /\ UNCHANGED Tables
    /\ UNCHANGED <<serial, clock>>

ReplyUpdateParent(t) ==
    /\ tx[t].kind = "reply" /\ tx[t].pc = "updateParent"
    /\ ~CommentLocked(t, tx[t].id)
    /\ IF tx[t].id \in DOMAIN VisibleComments(t)
       THEN LET row == [VisibleComments(t)[tx[t].id] EXCEPT
                           !.commentCount = IncrementCommentCount(@)]
            IN  tx' = [tx EXCEPT ![t].wComments = (tx[t].id :> row) @@ @,
                                 ![t].updateParentComment =
                                     <<[commentCount |-> row.commentCount]>>,
                                 ![t].pc = "updatePost"]
       ELSE tx' = [tx EXCEPT ![t].updateParentComment = <<>>,
                             ![t].pc = "updatePost"]
    /\ UNCHANGED <<Tables, serial, clock>>

ReplyUpdatePost(t) ==
    /\ tx[t].kind = "reply" /\ tx[t].pc = "updatePost"
    /\ LET postId == tx[t].parentComment[1].postId
       IN  /\ ~PostLocked(t, postId)
           /\ IF postId \in DOMAIN VisiblePosts(t)
              THEN LET row == [VisiblePosts(t)[postId] EXCEPT
                                  !.commentCount = IncrementCommentCount(@)]
                   IN  tx' = [tx EXCEPT ![t].wPosts = (postId :> row) @@ @,
                                        ![t].updated =
                                            <<[commentCount |-> row.commentCount]>>,
                                        ![t].pc = "insert"]
              ELSE tx' = [tx EXCEPT ![t].updated = <<>>, ![t].pc = "insert"]
    /\ UNCHANGED <<Tables, serial, clock>>

ReplyValuesFlat(t) ==
    [CommentDefaults(tx[t].user, tx[t].parentComment[1].postId, tx[t].startedAt)
        EXCEPT !.parentCommentId = tx[t].parentComment[1].id, !.depth = 1]

ReplyValuesDepthDefault(t) ==
    [CommentDefaults(tx[t].user, tx[t].parentComment[1].postId, tx[t].startedAt)
        EXCEPT !.parentCommentId = tx[t].parentComment[1].id]

\* .values({ content, userId, postId, parentCommentId: parentComment.id,
\*           depth: parentComment.depth + 1 }) with postId = parentComment.postId
ReplyValues(t) ==
    [CommentDefaults(tx[t].user, tx[t].parentComment[1].postId, tx[t].startedAt)
        EXCEPT !.parentCommentId = tx[t].parentComment[1].id,
               !.depth = tx[t].parentComment[1].depth + 1]

ReplyInsert(t) ==
    /\ tx[t].kind = "reply" /\ tx[t].pc = "insert"
    /\ IF NotFound(tx[t].updateParentComment) \/ NotFound(tx[t].updated)
       THEN Rollback(t, 404) /\ UNCHANGED serial
       ELSE /\ serial' = [serial EXCEPT !.comments = @ + 1]
            /\ tx' = [tx EXCEPT ![t].wComments =
                         ((serial.comments + 1) :> ReplyValues(t)) @@ @,
                                ![t].data = <<serial.comments + 1>>,
                                ![t].pc = "commit"]
            /\ UNCHANGED Tables
    /\ UNCHANGED clock

ReplyCommit(t) ==
    /\ tx[t].kind = "reply" /\ tx[t].pc = "commit"
    /\ CommitWrites(t)
    /\ tx' = [tx EXCEPT ![t] = Done(t, 200, Returned(t))]
    /\ UNCHANGED <<serial, clock>>

(* ------------------------------ POST /posts ---------------------------- *)
\* an absent (or empty) url or content of the form
NoText == ""

CreatePostAlwaysValid(form) == TRUE

\* createPostSchema's refine: url or content is required
CreatePostValid(form) == form.url # NoText \/ form.content # NoText

\* the request is received: its form is what the validator is given
CreatePostRequest(t, user, form) ==
    /\ LowestFree(t)
    /\ tx' = [tx EXCEPT ![t] = [IdleTx EXCEPT !.kind = "createPost",
                                  !.pc = "validate", !.user = user,
                                  !.query = form]]
    /\ UNCHANGED <<Tables, serial, clock>>

\* zValidator("form", createPostSchema) answers 400 for a form that fails;
\* the handler inserts the post (one statement, committed at once) and
\* answers 201 with its id
CreatePost(t) ==
    /\ tx[t].kind = "createPost" /\ tx[t].pc = "validate"
    /\ IF CreatePostValid(tx[t].query)
       THEN /\ clock' = clock + 1
            /\ serial' = [serial EXCEPT !.posts = @ + 1]
            /\ postsTable' = ((serial.posts + 1) :>
                                 NewPost(tx[t].user, tx[t].query.url,
                                         tx[t].query.content, clock + 1))
                             @@ postsTable
            /\ tx' = [tx EXCEPT ![t] =
                         Done(t, 201, <<[postId |-> serial.posts + 1]>>)]
       ELSE /\ tx' = [tx EXCEPT ![t] = Done(t, 400, <<>>)]
            /\ UNCHANGED <<serial, postsTable, clock>>
    /\ UNCHANGED <<commentsTable, postUpvotesTable, commentUpvotesTable>>

(* ------------------------------ listings ------------------------------- *)
\* paginationSchema: limit defaults to 10, page to 1, sortBy to "points" and
\* order to "desc"; author, site and (for a post's comments) includeChildren
\* are optional
PaginationDefaults ==
    [limit |-> 10, page |-> 1, sortBy |-> "points", order |-> "desc",
     author |-> NoText, site |-> NoText, includeChildren |-> FALSE]

\* zValidator("query", paginationSchema): limit and page are any number,
\* sortBy and order are of their enums
PaginationValid(query) ==
    /\ query.sortBy \in {"points", "recent"}
    /\ query.order \in {"asc", "desc"}

\* Math.ceil(count / limit) for a limit >= 0, as ctx.json writes it: a
\* division by 0 gives Infinity, or NaN for 0 / 0, and JSON has null (here
\* <<>>) for both; a number n is <<n>>
MathCeil(count, limit) ==
    IF limit = 0 THEN <<>>
    ELSE IF count % limit = 0 THEN <<count \div limit>>
    ELSE <<(count \div limit) + 1>>

\* PostgreSQL refuses a negative LIMIT or OFFSET: the statement throws
StatementFails(limit, offset) == limit < 0 \/ offset < 0

\* sortBy === "points" ? points : createdAt
SortByColumn(row, query) ==
    IF query.sortBy = "points" THEN row.points ELSE row.createdAt

\* order === "desc" ? desc(sortByColumn) : asc(sortByColumn): the value
\* the rows come in ascending order of
SortOrder(row, query) ==
    IF query.order = "desc" THEN 0 - SortByColumn(row, query)
    ELSE SortByColumn(row, query)

RECURSIVE OrderBy(_, _, _, _)
\* .orderBy(sortOrder): the first n rows (ids) of the ids, in each of the
\* orders the statement may give them in: rows of equal sort column come in
\* whatever order the database finds them
OrderBy(ids, table, query, n) ==
    IF ids = {} \/ n <= 0 THEN {<<>>}
    ELSE LET keys == {SortOrder(table[i], query) : i \in ids}
             least == CHOOSE k \in keys : \A l \in keys : k <= l
             firsts == {i \in ids : SortOrder(table[i], query) = least}
         IN  UNION {{<<first>> \o rest :
                        rest \in OrderBy(ids \ {first}, table, query, n - 1)}
                    : first \in firsts}

\* .limit(limit).offset(offset)
LimitOffset(rows, limit, offset) ==
    IF offset >= Len(rows) THEN <<>>
    ELSE SubSeq(rows, offset + 1,
                IF offset + limit < Len(rows) THEN offset + limit ELSE Len(rows))

\* the answer of a listing
Paginated(data, message, totalPages, page) ==
    <<[data |-> data, message |-> message,
       pagination |-> [totalPages |-> totalPages, page |-> page]]>>

\* the viewer of a read: ctx.get("user"), nobody when the session is anonymous
Anonymous == NoText

RECURSIVE VotesById(_)
\* rows of a vote table, in the order of their ids
VotesById(rows) ==
    IF rows = {} THEN <<>>
    ELSE LET first == CHOOSE r \in rows : \A o \in rows : r.id <= o.id
         IN  <<first>> \o VotesById(rows \ {first})

PostVoteJoinAnyUser(r, post, viewer) == r.postId = post

\* and(eq(postUpvotesTable.postId, postsTable.id),
\*     eq(postUpvotesTable.userId, user.id))
PostVoteJoin(r, post, viewer) == r.postId = post /\ r.userId = viewer

\* the rows a post gives: one for each vote row the left join (made only for
\* a viewer who is logged in) finds for it, one without vote when it finds none
PostJoined(post, viewer) ==
    LET votes == IF viewer = Anonymous THEN {}
                 ELSE {r \in postUpvotesTable : PostVoteJoin(r, post, viewer)}
    IN  IF votes = {} THEN <<[id |-> post, upvote |-> <<>>]>>
        ELSE [i \in 1..Cardinality(votes) |->
                 [id |-> post, upvote |-> <<VotesById(votes)[i].userId>>]]

RECURSIVE PostsJoined(_, _)
PostsJoined(posts, viewer) ==
    IF posts = <<>> THEN <<>>
    ELSE PostJoined(Head(posts), viewer) \o PostsJoined(Tail(posts), viewer)

\* isUpvoted: user ? CASE WHEN postUpvotesTable.userId IS NOT NULL
\*                   THEN true else false END : false
IsUpvoted(row, viewer) == IF viewer # Anonymous THEN row.upvote # <<>> ELSE FALSE

\* the selected columns of a post
PostSelected(row, viewer) ==
    [id |-> row.id, points |-> postsTable[row.id].points,
     commentCount |-> postsTable[row.id].commentCount,
     isUpvoted |-> IsUpvoted(row, viewer)]

CommentUpVotesOfAnyone(comment, viewer) ==
    IF \E r \in commentUpvotesTable : r.commentId = comment
    THEN <<[userId |-> (CHOOSE r \in commentUpvotesTable : r.commentId = comment).userId]>>
    ELSE <<>>

\* commentUpVotes: { columns: { userId: true },
\*                   where: eq(commentUpvotesTable.userId, user?.id ?? ""),
\*                   limit: 1 }
CommentUpVotes(comment, viewer) ==
    IF \E r \in commentUpvotesTable : r.commentId = comment /\ r.userId = viewer
    THEN <<[userId |-> viewer]>>
    ELSE <<>>

\* a comment as findMany gives it, without its children
CommentFound(comment, viewer) ==
    [id |-> comment, points |-> commentsTable[comment].points,
     commentCount |-> commentsTable[comment].commentCount,
     commentUpVotes |-> CommentUpVotes(comment, viewer)]

(* GET /posts *)
\* const offset = (page - 1) * limit
ListPostsOffset(query) == (query.page - 1) * query.limit

\* and(author ? eq(userId, author) : undefined, site ? eq(url, site) : undefined)
ListPostsWhere(query) ==
    {id \in DOMAIN postsTable :
        /\ query.author # NoText => postsTable[id].userId = query.author
        /\ query.site # NoText => postsTable[id].url = query.site}

\* totalPages: Math.ceil(count.count / limit)
ListPostsTotalPages(count, query) == MathCeil(count, query.limit)

\* the request is validated, the handler entered and the posts counted
ListPostsCount(t, viewer, query) ==
    /\ LowestFree(t)
    /\ tx' = [tx EXCEPT ![t] =
                 IF ~PaginationValid(query) THEN Done(t, 400, <<>>)
                 ELSE [IdleTx EXCEPT !.kind = "listPosts", !.pc = "find",
                                     !.user = viewer, !.query = query,
                                     !.count = <<[count |->
                                         Cardinality(ListPostsWhere(query))]>>]]
    /\ UNCHANGED <<Tables, serial, clock>>

ListPostsFind(t) ==
    /\ tx[t].kind = "listPosts" /\ tx[t].pc = "find"
    /\ LET query == tx[t].query
       IN  IF StatementFails(query.limit, ListPostsOffset(query))
           THEN tx' = [tx EXCEPT ![t] = Done(t, 500, <<>>)]
           ELSE \E sorted \in OrderBy(ListPostsWhere(query), postsTable, query,
                                      ListPostsOffset(query) + query.limit) :
                   LET rows == LimitOffset(PostsJoined(sorted, tx[t].user),
                                           query.limit, ListPostsOffset(query))
                       post == [i \in 1..Len(rows) |->
                                   PostSelected(rows[i], tx[t].user)]
                   IN  tx' = [tx EXCEPT ![t] =
                                 Done(t, 200,
                                      Paginated(post, "Posts fetched",
                                                ListPostsTotalPages(
                                                    tx[t].count[1].count, query),
                                                query.page))]
    /\ UNCHANGED <<Tables, serial, clock>>

(* GET /posts/:id *)
\* the request is received
GetPostRequest(t, id, viewer) ==
    /\ LowestFree(t)
    /\ tx' = [tx EXCEPT ![t] = [IdleTx EXCEPT !.kind = "getPost",
                                  !.pc = "select", !.id = id, !.user = viewer]]
    /\ UNCHANGED <<Tables, serial, clock>>

\* const [post] = await postQuery; 404 when there is none
GetPost(t) ==
    /\ tx[t].kind = "getPost" /\ tx[t].pc = "select"
    /\ LET rows == IF tx[t].id \in DOMAIN postsTable
                   THEN PostJoined(tx[t].id, tx[t].user)
                   ELSE <<>>
       IN  tx' = [tx EXCEPT ![t] =
                     IF rows = <<>> THEN Done(t, 404, <<>>)
                     ELSE Done(t, 200,
                               <<[data |-> PostSelected(rows[1], tx[t].user),
                                  message |-> "Post fetched"]>>)]
    /\ UNCHANGED <<Tables, serial, clock>>

(* GET /posts/:id/comments *)
\* const offset = (page - 1) * limit
PostCommentsOffset(query) == (query.page - 1) * query.limit

PostCommentsOfAnyPost(id) ==
    {c \in DOMAIN commentsTable : commentsTable[c].parentCommentId = NULL}

\* and(eq(postId, id), isNull(parentCommentId))
PostCommentsWhere(id) ==
    {c \in DOMAIN commentsTable :
        commentsTable[c].postId = id /\ commentsTable[c].parentCommentId = NULL}

\* totalPages: Math.ceil(count.count / limit)
PostCommentsTotalPages(count, query) == MathCeil(count, query.limit)

ChildCommentsLimitThree(query) == IF query.includeChildren THEN 3 ELSE 0

\* childComments: { limit: includeChildren ? 2 : 0 }
ChildCommentsLimit(query) == IF query.includeChildren THEN 2 ELSE 0

\* the childComments a comment may be given: its replies in the listing's
\* order, up to the limit, each with its commentUpVotes
ChildComments(comment, viewer, query) ==
    {[i \in 1..Len(LimitOffset(sorted, ChildCommentsLimit(query), 0)) |->
         CommentFound(sorted[i], viewer)]
        : sorted \in OrderBy({c \in DOMAIN commentsTable :
                                 commentsTable[c].parentCommentId = comment},
                             commentsTable, query, ChildCommentsLimit(query))}

\* the request is validated, the handler entered and the post looked up
ListPostCommentsExists(t, id, viewer, query) ==
    /\ LowestFree(t)
    /\ LET postExists == IF id \in DOMAIN postsTable THEN <<[exists |-> 1]>>
                         ELSE <<>>
       IN  tx' = [tx EXCEPT ![t] =
                     IF ~PaginationValid(query) THEN Done(t, 400, <<>>)
                     ELSE IF postExists = <<>> THEN Done(t, 404, <<>>)
                     ELSE [IdleTx EXCEPT !.kind = "listPostComments",
                                         !.pc = "count", !.id = id,
                                         !.user = viewer, !.query = query]]
    /\ UNCHANGED <<Tables, serial, clock>>

ListPostCommentsCount(t) ==
    /\ tx[t].kind = "listPostComments" /\ tx[t].pc = "count"
    /\ tx' = [tx EXCEPT ![t].count =
                 <<[count |-> Cardinality(PostCommentsWhere(tx[t].id))]>>,
                        ![t].pc = "find"]
    /\ UNCHANGED <<Tables, serial, clock>>

ListPostCommentsFind(t) ==
    /\ tx[t].kind = "listPostComments" /\ tx[t].pc = "find"
    /\ LET query == tx[t].query
       IN  IF StatementFails(query.limit, PostCommentsOffset(query))
           THEN tx' = [tx EXCEPT ![t] = Done(t, 500, <<>>)]
           ELSE \E sorted \in OrderBy(PostCommentsWhere(tx[t].id),
                                      commentsTable, query,
                                      PostCommentsOffset(query) + query.limit) :
                   LET rows == LimitOffset(sorted, query.limit,
                                           PostCommentsOffset(query))
                   IN  \E children \in [1..Len(rows) ->
                                           UNION {ChildComments(rows[i], tx[t].user,
                                                                query)
                                                  : i \in 1..Len(rows)}] :
                          /\ \A i \in 1..Len(rows) :
                                children[i] \in ChildComments(rows[i], tx[t].user,
                                                              query)
                          /\ tx' = [tx EXCEPT ![t] =
                                Done(t, 200,
                                     Paginated(
                                         [i \in 1..Len(rows) |->
                                             CommentFound(rows[i], tx[t].user)
                                             @@ [childComments |-> children[i]]],
                                         "Comments fetched",
                                         PostCommentsTotalPages(
                                             tx[t].count[1].count, query),
                                         query.page))]
    /\ UNCHANGED <<Tables, serial, clock>>

(* GET /comments/:id/comments *)
RepliesOffsetFromPage(query) == query.page * query.limit

\* const offset = (page - 1) * limit
RepliesOffset(query) == (query.page - 1) * query.limit

\* eq(parentCommentId, id)
RepliesWhere(id) ==
    {c \in DOMAIN commentsTable : commentsTable[c].parentCommentId = id}

\* totalPages: Math.ceil(count.count / limit)
RepliesTotalPages(count, query) == MathCeil(count, query.limit)

\* the request is validated, the handler entered and the replies counted
ListRepliesCount(t, id, viewer, query) ==
    /\ LowestFree(t)
    /\ tx' = [tx EXCEPT ![t] =
                 IF ~PaginationValid(query) THEN Done(t, 400, <<>>)
                 ELSE [IdleTx EXCEPT !.kind = "listReplies", !.pc = "find",
                                     !.id = id, !.user = viewer, !.query = query,
                                     !.count = <<[count |->
                                         Cardinality(RepliesWhere(id))]>>]]
    /\ UNCHANGED <<Tables, serial, clock>>

ListRepliesFind(t) ==
    /\ tx[t].kind = "listReplies" /\ tx[t].pc = "find"
    /\ LET query == tx[t].query
       IN  IF StatementFails(query.limit, RepliesOffset(query))
           THEN tx' = [tx EXCEPT ![t] = Done(t, 500, <<>>)]
           ELSE \E sorted \in OrderBy(RepliesWhere(tx[t].id), commentsTable, query,
                                      RepliesOffset(query) + query.limit) :
                   LET rows == LimitOffset(sorted, query.limit, RepliesOffset(query))
                   IN  tx' = [tx EXCEPT ![t] =
                                 Done(t, 200,
                                      Paginated(
                                          [i \in 1..Len(rows) |->
                                              CommentFound(rows[i], tx[t].user)],
                                          "Comments fetched",
                                          RepliesTotalPages(tx[t].count[1].count,
                                                            query),
                                          query.page))]
    /\ UNCHANGED <<Tables, serial, clock>>

(* --------------------------- specification ----------------------------- *)
\* hist.n counts the requests accepted, hist.calls[<<kind, id, user>>] the
\* requests of that kind, target and user that were answered with success
\* (status 200), hist.seed tells what the initial state held; hist.up and
\* hist.down are the pairs whose last toggle answered upvoted and not
\* upvoted, hist.lastOp the state before the last toggle and hist.run the
\* length of the run of toggles of one pair in immediate sequence (these
\* four are kept by SpecSeq)
NoHist ==
    [n |-> 0, calls |-> <<>>,
     seed |-> [votedPost |-> FALSE, votedComment |-> FALSE, comments |-> 0],
     up |-> {}, down |-> {}, lastOp |-> <<>>, run |-> 0]

Counted(h, key) ==
    [h EXCEPT !.calls = IF key \in DOMAIN h.calls
                        THEN [h.calls EXCEPT ![key] = h.calls[key] + 1]
                        ELSE (key :> 1) @@ h.calls]

InitTables ==
    /\ postsTable = <<>>
    /\ commentsTable = <<>>
    /\ postUpvotesTable = {}
    /\ commentUpvotesTable = {}
    /\ serial = [posts |-> 0, comments |-> 0, postUpvotes |-> 0, commentUpvotes |-> 0]
    /\ tx = [t \in Txs |-> IdleTx]
    /\ clock = 0

\* The quiet states the concurrent handlers start from: n posts by one
\* author, a first comment on post 1, and alice's vote on post 1 (votedPost)
\* and on that comment (votedComment) cast or not.  SpecSeq, which starts
\* from the empty database, reaches each of them (SeededReached).
Seeded(n, votedPost, votedComment) ==
    /\ postsTable =
          [id \in 1..n |->
              [NewPost("alice", "https://a", NoText, id) EXCEPT
                  !.points = IF id = 1 /\ votedPost THEN 1 ELSE 0,
                  !.commentCount = IF id = 1 THEN 1 ELSE 0]]
    /\ commentsTable =
          1 :> [CommentDefaults("alice", 1, n + 1) EXCEPT
                   !.points = IF votedComment THEN 1 ELSE 0]
    /\ postUpvotesTable =
          IF votedPost THEN {[id |-> 1, postId |-> 1, userId |-> "alice"]} ELSE {}
    /\ commentUpvotesTable =
          IF votedComment THEN {[id |-> 1, commentId |-> 1, userId |-> "alice"]}
          ELSE {}
    /\ serial = [posts |-> n, comments |-> 1,
                 postUpvotes |-> IF votedPost THEN 1 ELSE 0,
                 commentUpvotes |-> IF votedComment THEN 1 ELSE 0]
    /\ tx = [t \in Txs |-> IdleTx]
    /\ clock = n + 1

Init ==
    \E votedPost \in BOOLEAN, votedComment \in BOOLEAN :
       /\ Seeded(MaxPosts, votedPost, votedComment)
       /\ hist = [NoHist EXCEPT !.seed = [votedPost |-> votedPost,
                                          votedComment |-> votedComment,
                                          comments |-> 1]]

\* the ids a request may name: those allotted so far, and the next one
PostIds == 1..(serial.posts + 1)
CommentIds == 1..(serial.comments + 1)
Authors == {"alice"}

\* requests are accepted while the bounds allow
Accept == hist.n < MaxOps
AcceptComment == Accept /\ CommentsBegun < MaxComments
Accepted == hist' = [hist EXCEPT !.n = @ + 1]
Key(t) == <<tx[t].kind, tx[t].id, tx[t].user>>
\* handler t takes a step: if it answers with success, the call counts
Stepped(t) ==
    hist' = IF tx'[t].pc = "done" /\ tx'[t].status = 200
            THEN Counted(hist, Key(t)) ELSE hist

\* Any number of handlers run at once, their statements interleaved.
Next ==
    \/ \E t \in Txs, id \in PostIds, user \in Users :
          Accept /\ PostUpvoteSelect(t, id, user) /\ Accepted
    \/ \E t \in Txs : PostUpvoteUpdate(t) /\ Stepped(t)
    \/ \E t \in Txs : PostUpvoteWrite(t) /\ Stepped(t)
    \/ \E t \in Txs : PostUpvoteCommit(t) /\ Stepped(t)
    \/ \E t \in Txs, id \in CommentIds, user \in Users :
          Accept /\ CommentUpvoteSelect(t, id, user) /\ Accepted
    \/ \E t \in Txs : CommentUpvoteUpdate(t) /\ Stepped(t)
    \/ \E t \in Txs : CommentUpvoteWrite(t) /\ Stepped(t)
    \/ \E t \in Txs : CommentUpvoteCommit(t) /\ Stepped(t)
    \/ \E t \in Txs, id \in PostIds, user \in Authors :
          AcceptComment /\ BeginPostComment(t, id, user) /\ Accepted
    \/ \E t \in Txs : PostCommentUpdate(t) /\ Stepped(t)
    \/ \E t \in Txs : PostCommentInsert(t) /\ Stepped(t)
    \/ \E t \in Txs : PostCommentCommit(t) /\ Stepped(t)
    \/ \E t \in Txs, id \in CommentIds, user \in Authors :
          AcceptComment /\ BeginReply(t, id, user) /\ Accepted
    \/ \E t \in Txs : ReplySelectParent(t) /\ Stepped(t)
    \/ \E t \in Txs : ReplyUpdateParent(t) /\ Stepped(t)
    \/ \E t \in Txs : ReplyUpdatePost(t) /\ Stepped(t)
    \/ \E t \in Txs : ReplyInsert(t) /\ Stepped(t)
    \/ \E t \in Txs : ReplyCommit(t) /\ Stepped(t)

Spec == Init /\ [][Next]_vars

(* --------------------------- fair scheduling --------------------------- *)
\* the next statement of handler t, whichever handler it is
Continue(t) ==
    \/ PostUpvoteUpdate(t) \/ PostUpvoteWrite(t) \/ PostUpvoteCommit(t)
    \/ CommentUpvoteUpdate(t) \/ CommentUpvoteWrite(t) \/ CommentUpvoteCommit(t)
    \/ PostCommentUpdate(t) \/ PostCommentInsert(t) \/ PostCommentCommit(t)
    \/ ReplySelectParent(t) \/ ReplyUpdateParent(t) \/ ReplyUpdatePost(t)
    \/ ReplyInsert(t) \/ ReplyCommit(t)

MaxLiveOps == 2

AcceptLive == hist.n < MaxLiveOps

\* The handlers of Next, run at once, all requests made by one user (so the
\* toggles of an entity are toggles of one pair, which meet on the entity's
\* row and on the vote record both); of the history only the number of
\* requests is kept.
NextLive ==
    \/ \E t \in Txs, id \in PostIds, user \in Authors :
          AcceptLive /\ PostUpvoteSelect(t, id, user) /\ Accepted
    \/ \E t \in Txs, id \in CommentIds, user \in Authors :
          AcceptLive /\ CommentUpvoteSelect(t, id, user) /\ Accepted
    \/ \E t \in Txs, id \in PostIds, user \in Authors :
          /\ AcceptLive /\ CommentsBegun < MaxComments
          /\ BeginPostComment(t, id, user) /\ Accepted
    \/ \E t \in Txs, id \in CommentIds, user \in Authors :
          /\ AcceptLive /\ CommentsBegun < MaxComments
          /\ BeginReply(t, id, user) /\ Accepted
    \/ \E t \in Txs : Continue(t) /\ UNCHANGED hist

\* a statement that can run does run: the database answers every statement
\* that waits for no lock, and the handler goes on when it has the answer
Fairness == \A t \in Txs : WF_vars(Continue(t) /\ UNCHANGED hist)

SpecLive == Init /\ [][NextLive]_vars /\ Fairness

(* ----------------------- toggles run at once --------------------------- *)
MaxToggles == 3

AcceptToggle == hist.n < MaxToggles

\* Toggles only, of the seeded posts and comments, their statements
\* interleaved: a handler may stay between two of its statements while
\* others run from their first statement to their commit.
NextToggle ==
    \/ \E t \in Txs, id \in PostIds, user \in Users :
          AcceptToggle /\ PostUpvoteSelect(t, id, user) /\ Accepted
    \/ \E t \in Txs : PostUpvoteUpdate(t) /\ Stepped(t)
    \/ \E t \in Txs : PostUpvoteWrite(t) /\ Stepped(t)
    \/ \E t \in Txs : PostUpvoteCommit(t) /\ Stepped(t)
    \/ \E t \in Txs, id \in CommentIds, user \in Users :
          AcceptToggle /\ CommentUpvoteSelect(t, id, user) /\ Accepted
    \/ \E t \in Txs : CommentUpvoteUpdate(t) /\ Stepped(t)
    \/ \E t \in Txs : CommentUpvoteWrite(t) /\ Stepped(t)
    \/ \E t \in Txs : CommentUpvoteCommit(t) /\ Stepped(t)

SpecToggle == Init /\ [][NextToggle]_vars

(* ------------------- one request after another ------------------------- *)
MaxSeqOps == 5

Quiet == \A t \in Txs : Free(t)
AcceptSeq == Quiet /\ hist.n < MaxSeqOps

\* the committed state of a vote and of an entity's points
VotedIn(postUpvotes, commentUpvotes, kind, id, user) ==
    IF kind = "postUpvote"
    THEN \E r \in postUpvotes : r.postId = id /\ r.userId = user
    ELSE \E r \in commentUpvotes : r.commentId = id /\ r.userId = user
PointsIn(posts, comments, kind, id) ==
    IF kind = "postUpvote" THEN posts[id].points ELSE comments[id].points

\* the upvoted indication of a toggle's answer
Flag(kind, data) ==
    IF kind = "postUpvote" THEN data.isUpvoted ELSE data.commentUpvotes # <<>>

\* a request that is no toggle, or a toggle of another pair, ends the run of
\* toggles in immediate sequence
HistOther == hist' = [hist EXCEPT !.n = @ + 1, !.lastOp = <<>>, !.run = 0]
HistToggle(key) ==
    hist' = IF hist.lastOp # <<>> /\ hist.lastOp[1].key = key
            THEN [hist EXCEPT !.n = @ + 1]
            ELSE [hist EXCEPT !.n = @ + 1, !.lastOp = <<>>, !.run = 0]
\* a toggle that fails ends the run too
HistStep(t) ==
    hist' = IF tx'[t].pc = "done"
            THEN [hist EXCEPT !.lastOp = <<>>, !.run = 0]
            ELSE hist
\* a toggle's answer: the flag returned for the pair, and the pair's state
\* before this toggle
HistAnswer(t) ==
    hist' = [Counted(hist, Key(t)) EXCEPT
               !.up = IF Flag(tx[t].kind, tx'[t].data[1])
                      THEN @ \cup {Key(t)} ELSE @ \ {Key(t)},
               !.down = IF Flag(tx[t].kind, tx'[t].data[1])
                        THEN @ \ {Key(t)} ELSE @ \cup {Key(t)},
               !.lastOp = <<[key |-> Key(t),
                             points |-> PointsIn(postsTable, commentsTable,
                                                 tx[t].kind, tx[t].id),
                             voted |-> VotedIn(postUpvotesTable,
                                               commentUpvotesTable, tx[t].kind,
                                               tx[t].id, tx[t].user)]>>,
               !.run = IF @ < 3 THEN @ + 1 ELSE 3]

SeqForms == {[url |-> "https://a", content |-> NoText],
             [url |-> NoText, content |-> "text"],
             [url |-> NoText, content |-> NoText]}

InitSeq == InitTables /\ hist = NoHist

NextSeq ==
    \/ \E t \in Txs, user \in Authors, form \in SeqForms :
          /\ AcceptSeq
          /\ serial.posts + (IF CreatePostValid(form) THEN 1 ELSE 0) <= MaxPosts
          /\ CreatePostRequest(t, user, form) /\ HistOther
    \/ \E t \in Txs : CreatePost(t) /\ UNCHANGED hist
    \/ \E t \in Txs, id \in PostIds, user \in Users :
          /\ AcceptSeq
          /\ PostUpvoteSelect(t, id, user) /\ HistToggle(<<"postUpvote", id, user>>)
    \/ \E t \in Txs : PostUpvoteUpdate(t) /\ HistStep(t)
    \/ \E t \in Txs : PostUpvoteWrite(t) /\ HistStep(t)
    \/ \E t \in Txs : PostUpvoteCommit(t) /\ HistAnswer(t)
    \/ \E t \in Txs, id \in CommentIds, user \in Users :
          /\ AcceptSeq
          /\ CommentUpvoteSelect(t, id, user)
          /\ HistToggle(<<"commentUpvote", id, user>>)
    \/ \E t \in Txs : CommentUpvoteUpdate(t) /\ HistStep(t)
    \/ \E t \in Txs : CommentUpvoteWrite(t) /\ HistStep(t)
    \/ \E t \in Txs : CommentUpvoteCommit(t) /\ HistAnswer(t)
    \/ \E t \in Txs, id \in PostIds, user \in Authors :
          /\ AcceptSeq /\ CommentsBegun < MaxComments
          /\ BeginPostComment(t, id, user) /\ HistOther
    \/ \E t \in Txs : PostCommentUpdate(t) /\ Stepped(t)
    \/ \E t \in Txs : PostCommentInsert(t) /\ Stepped(t)
    \/ \E t \in Txs : PostCommentCommit(t) /\ Stepped(t)
    \/ \E t \in Txs, id \in CommentIds, user \in Authors :
          /\ AcceptSeq /\ CommentsBegun < MaxComments
          /\ BeginReply(t, id, user) /\ HistOther
    \/ \E t \in Txs : ReplySelectParent(t) /\ Stepped(t)
    \/ \E t \in Txs : ReplyUpdateParent(t) /\ Stepped(t)
    \/ \E t \in Txs : ReplyUpdatePost(t) /\ Stepped(t)
    \/ \E t \in Txs : ReplyInsert(t) /\ Stepped(t)
    \/ \E t \in Txs : ReplyCommit(t) /\ Stepped(t)

SpecSeq == InitSeq /\ [][NextSeq]_vars

\* every seeded state of Spec is a state SpecSeq reaches from the empty
\* database (the negation is violated under SpecSeq for each choice)
SeededTables(n, votedPost, votedComment) ==
    /\ postsTable =
          [id \in 1..n |->
              [NewPost("alice", "https://a", NoText, id) EXCEPT
                  !.points = IF id = 1 /\ votedPost THEN 1 ELSE 0,
                  !.commentCount = IF id = 1 THEN 1 ELSE 0]]
    /\ commentsTable =
          1 :> [CommentDefaults("alice", 1, n + 1) EXCEPT
                   !.points = IF votedComment THEN 1 ELSE 0]
    /\ postUpvotesTable =
          IF votedPost THEN {[id |-> 1, postId |-> 1, userId |-> "alice"]} ELSE {}
    /\ commentUpvotesTable =
          IF votedComment THEN {[id |-> 1, commentId |-> 1, userId |-> "alice"]}
          ELSE {}
    /\ serial = [posts |-> n, comments |-> 1,
                 postUpvotes |-> IF votedPost THEN 1 ELSE 0,
                 commentUpvotes |-> IF votedComment THEN 1 ELSE 0]
    /\ clock = n + 1
    /\ Quiet
SeededReached == SeededTables(MaxPosts, TRUE, TRUE)
SeededReachedUnvoted == SeededTables(MaxPosts, FALSE, FALSE)

(* ------------------------ listings of a full table --------------------- *)
MaxRows == 23
MaxLimit == 10
MaxPage == 4

\* The database after n posts, n comments on post 1 and n replies to
\* comment 1 were created one after another, and nothing was voted.
Filled(n) ==
    /\ postsTable =
          [id \in 1..n |->
              [NewPost(IF id % 2 = 1 THEN "alice" ELSE "bob",
                       IF id % 3 = 0 THEN "https://a" ELSE "https://b",
                       NoText, id)
                  EXCEPT !.commentCount = IF id = 1 THEN 2 * n ELSE 0]]
    /\ commentsTable =
          [id \in 1..(2 * n) |->
              IF id <= n
              THEN [CommentDefaults("alice", 1, n + id) EXCEPT
                       !.commentCount = IF id = 1 THEN n ELSE 0]
              ELSE [CommentDefaults("alice", 1, n + id) EXCEPT
                       !.parentCommentId = 1, !.depth = 1]]
    /\ postUpvotesTable = {}
    /\ commentUpvotesTable = {}
    /\ serial = [posts |-> n, comments |-> 2 * n,
                 postUpvotes |-> 0, commentUpvotes |-> 0]
    /\ tx = [t \in Txs |-> IdleTx]
    /\ clock = 3 * n

InitPage == (\E n \in 0..MaxRows : Filled(n)) /\ hist = NoHist

\* the queries drawn: every limit and page from 0 up to the bounds, either
\* order of createdAt (which differs from row to row), one query the
\* validator refuses, and the filters of GET /posts
Queries ==
    {[PaginationDefaults EXCEPT !.limit = l, !.page = p, !.sortBy = "recent",
                                !.order = o]
        : l \in 0..MaxLimit, p \in 0..MaxPage, o \in {"asc", "desc"}}
    \cup {[PaginationDefaults EXCEPT !.order = "up"]}
PostQueries ==
    Queries
    \cup {[q EXCEPT !.author = "bob"] : q \in {r \in Queries : r.order = "desc"}}
    \cup {[q EXCEPT !.site = "https://a"] : q \in {r \in Queries : r.order = "asc"}}

\* One listing of a database nobody writes (a listing writes nothing, so
\* that a second one would start where the first did).
First == hist.n = 0 /\ Quiet

NextPage ==
    \/ First /\ \E t \in Txs, query \in PostQueries :
          ListPostsCount(t, Anonymous, query) /\ Accepted
    \/ \E t \in Txs : ListPostsFind(t) /\ UNCHANGED hist
    \/ First /\ \E t \in Txs, id \in PostIds, query \in Queries :
          ListPostCommentsExists(t, id, Anonymous, query) /\ Accepted
    \/ \E t \in Txs : ListPostCommentsCount(t) /\ UNCHANGED hist
    \/ \E t \in Txs : ListPostCommentsFind(t) /\ UNCHANGED hist
    \/ First /\ \E t \in Txs, id \in 1..2, query \in Queries :
          ListRepliesCount(t, id, Anonymous, query) /\ Accepted
    \/ \E t \in Txs : ListRepliesFind(t) /\ UNCHANGED hist

SpecPage == InitPage /\ [][NextPage]_vars

(* ------------------------ readings of a small thread ------------------- *)
MaxReplies == 5
MaxViewLimit == 2

\* The database after alice and bob each wrote a post, comments 1 and 2
\* were written on post 1 and comment 3 on post 2, comment 4 was written in
\* reply to comment 2 and k comments in reply to comment 1, and then alice
\* (byAlice) and bob (byBob) voted, one request after another: both for
\* post 1 and comment 2, alice for the last reply to comment 1 and bob for
\* the second one.
Thread(k, byAlice, byBob) ==
    LET voters == (IF byAlice THEN {"alice"} ELSE {}) \cup
                  (IF byBob THEN {"bob"} ELSE {})
        commentVotes ==
           {<<2, u>> : u \in voters}
           \cup (IF byAlice /\ k >= 1 THEN {<<4 + k, "alice">>} ELSE {})
           \cup (IF byBob /\ k >= 2 THEN {<<6, "bob">>} ELSE {})
        \* bob votes after alice; each votes for the lower id first
        After(v, w) == \/ v[2] = "bob" /\ w[2] = "alice"
                       \/ v[2] = w[2] /\ v[1] > w[1]
        VoteId(v) == 1 + Cardinality({w \in commentVotes : After(v, w)})
    IN  /\ postsTable =
              (1 :> [NewPost("alice", "https://a", NoText, 1) EXCEPT
                        !.points = Cardinality(voters),
                        !.commentCount = 3 + k])
              @@ (2 :> [NewPost("bob", NoText, "text", 2) EXCEPT
                           !.commentCount = 1])
        /\ commentsTable =
              [c \in 1..(4 + k) |->
                  [CommentDefaults("alice", IF c = 3 THEN 2 ELSE 1, 2 + c) EXCEPT
                      !.parentCommentId = IF c <= 3 THEN NULL
                                          ELSE IF c = 4 THEN 2 ELSE 1,
                      !.depth = IF c <= 3 THEN 0 ELSE 1,
                      !.commentCount = IF c = 1 THEN k ELSE IF c = 2 THEN 1 ELSE 0,
                      !.points = Cardinality({v \in commentVotes : v[1] = c})]]
        /\ postUpvotesTable =
              {[id |-> IF u = "bob" /\ byAlice THEN 2 ELSE 1,
                postId |-> 1, userId |-> u] : u \in voters}
        /\ commentUpvotesTable =
              {[id |-> VoteId(v), commentId |-> v[1], userId |-> v[2]]
                  : v \in commentVotes}
        /\ serial = [posts |-> 2, comments |-> 4 + k,
                     postUpvotes |-> Cardinality(voters),
                     commentUpvotes |-> Cardinality(commentVotes)]
        /\ tx = [t \in Txs |-> IdleTx]
        /\ clock = 6 + k

InitView ==
    /\ \E k \in 0..MaxReplies, byAlice \in BOOLEAN, byBob \in BOOLEAN :
          Thread(k, byAlice, byBob)
    /\ hist = NoHist

Viewers == {Anonymous, "alice"}

\* the queries drawn: the defaults, and small pages in every order
ViewQueries ==
    {[PaginationDefaults EXCEPT !.limit = l, !.page = p, !.sortBy = s,
                                !.order = o, !.includeChildren = c]
        : l \in 1..MaxViewLimit, p \in 1..2, s \in {"points", "recent"},
          o \in {"asc", "desc"}, c \in BOOLEAN}
NoChildren(queries) == {q \in queries : ~q.includeChildren}

\* One reading of a database nobody writes.
NextView ==
    \/ First /\ \E t \in Txs, viewer \in Viewers,
                   query \in NoChildren(ViewQueries) \cup {PaginationDefaults} :
          ListPostsCount(t, viewer, query) /\ Accepted
    \/ \E t \in Txs : ListPostsFind(t) /\ UNCHANGED hist
    \/ First /\ \E t \in Txs, id \in PostIds, viewer \in Viewers :
          GetPostRequest(t, id, viewer) /\ Accepted
    \/ \E t \in Txs : GetPost(t) /\ UNCHANGED hist
    \/ First /\ \E t \in Txs, id \in PostIds, viewer \in Viewers,
                   query \in ViewQueries \cup {PaginationDefaults} :
          ListPostCommentsExists(t, id, viewer, query) /\ Accepted
    \/ \E t \in Txs : ListPostCommentsCount(t) /\ UNCHANGED hist
    \/ \E t \in Txs : ListPostCommentsFind(t) /\ UNCHANGED hist
    \/ First /\ \E t \in Txs, id \in 1..2, viewer \in Viewers,
                   query \in NoChildren(ViewQueries) :
          ListRepliesCount(t, id, viewer, query) /\ Accepted
    \/ \E t \in Txs : ListRepliesFind(t) /\ UNCHANGED hist

SpecView == InitView /\ [][NextView]_vars

(* ------------------------------ claims --------------------------------- *)
ToggleKinds == {"postUpvote", "commentUpvote"}

\* the step in which toggle t commits and answers
ToggleAnswers(t) ==
    tx[t].kind \in ToggleKinds /\ tx[t].pc = "commit" /\ tx'[t].pc = "done"

\* C1: toggles of one pair (user, entity) run one after another answer
\* upvoted = true, false, true, ...: true after an answer of false, false
\* after an answer of true, and true at first, when no vote record exists;
\* each answer moves the entity's points by exactly +1 (upvoted) or -1 (not).
C1_TogglesAlternate ==
    [][\A t \in Txs :
          ToggleAnswers(t) =>
             /\ Key(t) \in hist.up => ~Flag(tx[t].kind, tx'[t].data[1])
             /\ Key(t) \in hist.down => Flag(tx[t].kind, tx'[t].data[1])
             /\ (/\ Key(t) \notin hist.up \cup hist.down
                 /\ ~VotedIn(postUpvotesTable, commentUpvotesTable,
                             tx[t].kind, tx[t].id, tx[t].user))
                => Flag(tx[t].kind, tx'[t].data[1])
             /\ PointsIn(postsTable', commentsTable', tx[t].kind, tx[t].id)
                = PointsIn(postsTable, commentsTable, tx[t].kind, tx[t].id)
                  + (IF Flag(tx[t].kind, tx'[t].data[1]) THEN 1 ELSE -1)]_vars

\* three toggles of one post by one user in a row, answered true, false, true
C1_Witness ==
    /\ hist.run = 3
    /\ hist.lastOp[1].key[1] = "postUpvote"
    /\ hist.lastOp[1].key \in hist.up
    /\ hist.lastOp[1].voted = FALSE

\* C9: two toggles of one pair in immediate sequence leave the entity's
\* points and the existence of the pair's vote record as they were before
\* the first, whether the vote was cast or not before.
C9_DoubleToggleRestores ==
    [][\A t \in Txs :
          (ToggleAnswers(t) /\ hist.lastOp # <<>> /\ hist.lastOp[1].key = Key(t))
          => /\ PointsIn(postsTable', commentsTable', tx[t].kind, tx[t].id)
                = hist.lastOp[1].points
             /\ VotedIn(postUpvotesTable', commentUpvotesTable',
                        tx[t].kind, tx[t].id, tx[t].user)
                = hist.lastOp[1].voted]_vars

\* three toggles of one comment in a row: the second restored the state
\* without a vote, the third the state with one
C9_Witness ==
    /\ hist.run = 3
    /\ hist.lastOp[1].key[1] = "commentUpvote"
    /\ hist.lastOp[1].voted = FALSE
    /\ VotedIn(postUpvotesTable, commentUpvotesTable, "commentUpvote",
               hist.lastOp[1].key[2], hist.lastOp[1].key[3])

(* the calls answered, read from the history *)
Calls(key) == IF key \in DOMAIN hist.calls THEN hist.calls[key] ELSE 0

RECURSIVE SumCalls(_)
SumCalls(keys) ==
    IF keys = {} THEN 0
    ELSE LET k == CHOOSE x \in keys : TRUE
         IN  Calls(k) + SumCalls(keys \ {k})

\* the vote of the pair in the initial state
SeedVoted(kind, id, user) ==
    /\ user = "alice" /\ id = 1
    /\ IF kind = "postUpvote" THEN hist.seed.votedPost ELSE hist.seed.votedComment

\* ... and after the pair's calls, run one after another in any order: each
\* call flips it
SerialVoted(kind, id, user) ==
    SeedVoted(kind, id, user) # (Calls(<<kind, id, user>>) % 2 = 1)

Entities(kind) ==
    IF kind = "postUpvote" THEN DOMAIN postsTable ELSE DOMAIN commentsTable

\* C2: concurrent toggles of one pair serialize: when all have finished, the
\* pair's vote record and the entity's points are those that the calls
\* answered with success leave when run one after another (each call one
\* vote or one un-vote).
C2_TogglesSerialize ==
    Quiet =>
       \A kind \in ToggleKinds : \A id \in Entities(kind) :
          /\ \A user \in Users :
                VotedIn(postUpvotesTable, commentUpvotesTable, kind, id, user)
                = SerialVoted(kind, id, user)
          /\ PointsIn(postsTable, commentsTable, kind, id)
             = Cardinality({user \in Users : SerialVoted(kind, id, user)})

\* C3: at most one vote record for each pair (user, entity), in the post
\* vote ledger and in the comment vote ledger, in every reachable state.
C3_OneVotePerPair ==
    /\ \A r1, r2 \in postUpvotesTable :
          (r1.postId = r2.postId /\ r1.userId = r2.userId) => r1 = r2
    /\ \A r1, r2 \in commentUpvotesTable :
          (r1.commentId = r2.commentId /\ r1.userId = r2.userId) => r1 = r2

\* two toggles of one pair were interleaved: the second one's INSERT met the
\* record the first had committed
C3_Witness ==
    /\ \E t \in Txs : tx[t].pc = "done" /\ tx[t].status = 500
    /\ postUpvotesTable # {}

\* the step in which handler t, of the given kind, commits and answers
Commits(t, kind) ==
    tx[t].kind = kind /\ tx[t].pc = "commit" /\ tx'[t].pc = "done"
\* the step handler t takes from the given statement
StepsFrom(t, kind, pc) ==
    tx[t].kind = kind /\ tx[t].pc = pc /\ tx'[t] # tx[t]

NewComments == DOMAIN commentsTable' \ DOMAIN commentsTable

\* C4: a reply to an existing parent comment that succeeds inserts exactly
\* one comment, of depth parent.depth + 1, of the parent's stored postId and
\* with parentCommentId the parent's id, and the same step adds exactly 1 to
\* the parent's commentCount and to the owning post's commentCount.
C4_ReplyCreated ==
    [][\A t \in Txs :
          Commits(t, "reply") =>
             /\ tx[t].id \in DOMAIN commentsTable
             /\ tx'[t].status = 200
             /\ Cardinality(NewComments) = 1
             /\ \A c \in NewComments :
                   /\ commentsTable'[c].depth = commentsTable[tx[t].id].depth + 1
                   /\ commentsTable'[c].postId = commentsTable[tx[t].id].postId
                   /\ commentsTable'[c].parentCommentId = tx[t].id
                   /\ tx'[t].data[1].id = c
             /\ commentsTable'[tx[t].id].commentCount
                = commentsTable[tx[t].id].commentCount + 1
             /\ postsTable'[commentsTable[tx[t].id].postId].commentCount
                = postsTable[commentsTable[tx[t].id].postId].commentCount + 1]_vars

\* a reply to a reply has been created: a comment of depth 2
C4_Witness ==
    \E c \in DOMAIN commentsTable :
       /\ commentsTable[c].depth = 2
       /\ commentsTable[commentsTable[c].parentCommentId].commentCount = 1

\* C5: a reply under a parent comment id that does not exist fails with
\* NotFound (404) at the lookup of the parent, and leaves the comments table
\* with every commentCount in it, and every post's commentCount, unchanged.
C5_ReplyParentMissing ==
    [][\A t \in Txs :
          (StepsFrom(t, "reply", "selectParent")
           /\ tx[t].id \notin DOMAIN commentsTable)
          => /\ tx'[t].pc = "done" /\ tx'[t].status = 404
             /\ commentsTable' = commentsTable
             /\ postsTable' = postsTable]_vars

\* a reply was asked under a comment id that does not exist, with comments
\* and counters there to be kept
C5_Witness ==
    /\ \E t \in Txs : /\ tx[t].kind = "reply" /\ tx[t].pc = "selectParent"
                      /\ tx[t].id \notin DOMAIN commentsTable
    /\ \E c \in DOMAIN commentsTable : commentsTable[c].commentCount > 0

\* C6: concurrent comment insertions under one parent comment, and under one
\* post, lose no increment: whatever the interleaving, each commentCount has
\* grown by exactly the number of the insertions under it that committed.
C6_NoLostIncrements ==
    /\ \A p \in DOMAIN postsTable :
          postsTable[p].commentCount
          = (IF p = 1 THEN hist.seed.comments ELSE 0)
            + SumCalls({k \in DOMAIN hist.calls :
                          \/ k[1] = "postComment" /\ k[2] = p
                          \/ /\ k[1] = "reply"
                             /\ k[2] \in DOMAIN commentsTable
                             /\ commentsTable[k[2]].postId = p})
    /\ \A c \in DOMAIN commentsTable :
          commentsTable[c].commentCount
          = SumCalls({k \in DOMAIN hist.calls : k[1] = "reply" /\ k[2] = c})

\* two replies under one parent overlapped and both committed: the row of
\* the second is dated before the row of the first, which it waited for
C6_Witness ==
    \E c1, c2 \in DOMAIN commentsTable :
       /\ c1 < c2
       /\ commentsTable[c1].parentCommentId = commentsTable[c2].parentCommentId
       /\ commentsTable[c1].parentCommentId # NULL
       /\ commentsTable[c2].createdAt < commentsTable[c1].createdAt
       /\ commentsTable[commentsTable[c1].parentCommentId].commentCount = 2

\* C7: a top-level comment on an existing post inserts exactly one comment,
\* of depth 0, without parent and of that post, and adds exactly 1 to the
\* post's commentCount; on a post that does not exist it fails with NotFound
\* (404), inserts no comment and changes no counter.
C7_PostCommentCreated ==
    [][\A t \in Txs :
          /\ Commits(t, "postComment") =>
                /\ tx[t].id \in DOMAIN postsTable
                /\ tx'[t].status = 200
                /\ Cardinality(NewComments) = 1
                /\ \A c \in NewComments :
                      /\ commentsTable'[c].depth = 0
                      /\ commentsTable'[c].parentCommentId = NULL
                      /\ commentsTable'[c].postId = tx[t].id
                      /\ tx'[t].data[1].id = c
                /\ postsTable'[tx[t].id].commentCount
                   = postsTable[tx[t].id].commentCount + 1
          /\ (StepsFrom(t, "postComment", "updatePost")
              /\ tx[t].id \notin DOMAIN postsTable)
             => /\ tx'[t].pc = "done" /\ tx'[t].status = 404
                /\ commentsTable' = commentsTable
                /\ postsTable' = postsTable]_vars

\* a top-level comment was created while another one on a post that does
\* not exist was refused
C7_Witness ==
    /\ \E t \in Txs : tx[t].pc = "done" /\ tx[t].status = 404
    /\ \E t \in Txs : /\ tx[t].pc = "done" /\ tx[t].status = 200
                      /\ tx[t].data # <<>>
                      /\ "depth" \in DOMAIN tx[t].data[1]
                      /\ tx[t].data[1].depth = 0
                      /\ tx[t].data[1].id > 1

\* C8: a toggle whose target post or comment does not exist fails with
\* NotFound (404); after the failure there is no vote record of the pair
\* (entity, user), and no points have changed.
C8_ToggleTargetMissing ==
    [][\A t \in Txs :
          (/\ tx[t].kind \in ToggleKinds
           /\ tx[t].pc = "update" /\ tx'[t] # tx[t]
           /\ tx[t].id \notin Entities(tx[t].kind))
          => /\ tx'[t].pc = "done" /\ tx'[t].status = 404
             /\ ~VotedIn(postUpvotesTable', commentUpvotesTable',
                         tx[t].kind, tx[t].id, tx[t].user)
             /\ postsTable' = postsTable
             /\ commentsTable' = commentsTable]_vars

\* a toggle of a post that does not exist was refused while votes and points
\* were there to be kept
C8_Witness ==
    /\ \E t \in Txs : tx[t].pc = "done" /\ tx[t].status = 404
    /\ \E t \in Txs : /\ tx[t].kind = "postUpvote" /\ tx[t].pc = "update"
                      /\ tx[t].id \notin DOMAIN postsTable
    /\ postUpvotesTable # {}

\* the rows a listing t draws from, and the table they are rows of
ListingKinds == {"listPosts", "listPostComments", "listReplies"}
Listed(t) ==
    IF tx[t].kind = "listPosts" THEN ListPostsWhere(tx[t].query)
    ELSE IF tx[t].kind = "listPostComments" THEN PostCommentsWhere(tx[t].id)
    ELSE RepliesWhere(tx[t].id)
ListedTable(t) == IF tx[t].kind = "listPosts" THEN postsTable ELSE commentsTable
\* the place of row r among the rows listed, in the order asked for
Rank(t, r) ==
    1 + Cardinality({o \in Listed(t) :
                        IF tx[t].query.order = "desc"
                        THEN ListedTable(t)[o].createdAt > ListedTable(t)[r].createdAt
                        ELSE ListedTable(t)[o].createdAt < ListedTable(t)[r].createdAt})
\* the least number of pages of the given size that hold total rows
PagesFor(total, limit) ==
    CHOOSE k \in 0..total : k * limit >= total /\ \A j \in 0..(k - 1) : j * limit < total

\* C10: the three listings (posts, a post's top-level comments, a comment's
\* replies) page alike: the rows answered are those at the places
\* (page - 1) * limit + 1 .. (page - 1) * limit + limit of the rows listed,
\* as far as there are any, and totalPages is ceil(total / limit); with 23
\* rows and limit 10 totalPages is 3 and page 3 answers exactly 3 rows, those
\* from place 21 on.
C10_ListingsPageAlike ==
    [][\A t \in Txs :
          (/\ tx[t].kind \in ListingKinds /\ tx[t].pc = "find" /\ tx'[t].pc = "done"
           /\ tx[t].query.limit > 0 /\ tx[t].query.page >= 1)
          => LET query == tx[t].query
                 total == Cardinality(Listed(t))
                 offset == (query.page - 1) * query.limit
                 left == IF total > offset THEN total - offset ELSE 0
                 answer == tx'[t].data[1]
             IN  /\ tx'[t].status = 200
                 /\ answer.pagination.page = query.page
                 /\ answer.pagination.totalPages = <<PagesFor(total, query.limit)>>
                 /\ Len(answer.data) = IF left < query.limit THEN left
                                       ELSE query.limit
                 /\ \A i \in 1..Len(answer.data) :
                       /\ answer.data[i].id \in Listed(t)
                       /\ Rank(t, answer.data[i].id) = offset + i
                 /\ (total = 23 /\ query.limit = 10)
                    => /\ answer.pagination.totalPages = <<3>>
                       /\ query.page = 3 => /\ Len(answer.data) = 3
                                            /\ Rank(t, answer.data[1].id) = 21]_vars

\* page 3 of the 23 replies to comment 1, 10 to the page, was answered with
\* 3 replies and 3 pages in all
C10_Witness ==
    /\ Cardinality(RepliesWhere(1)) = 23
    /\ \E t \in Txs :
          /\ tx[t].pc = "done" /\ tx[t].status = 200
          /\ tx[t].data[1].pagination = [totalPages |-> <<3>>, page |-> 3]
          /\ Len(tx[t].data[1].data) = 3
          /\ \A i \in 1..3 : tx[t].data[1].data[i].id \in RepliesWhere(1)

\* no handler of one of the kinds is in flight
NoneInFlight(kinds) == \A t \in Txs : InFlight(t) => tx[t].kind \notin kinds

\* C18: whenever no toggle is in flight, each post's points is the number of
\* the post's vote records and each comment's points the number of the
\* comment's vote records; so points is never negative.
C18_PointsCountVotes ==
    NoneInFlight(ToggleKinds) =>
       /\ \A p \in DOMAIN postsTable :
             postsTable[p].points
             = Cardinality({r \in postUpvotesTable : r.postId = p})
       /\ \A c \in DOMAIN commentsTable :
             commentsTable[c].points
             = Cardinality({r \in commentUpvotesTable : r.commentId = c})

\* C19: whenever no comment creation is in flight, each post's commentCount
\* is the number of stored comments of that post, of any depth, and each
\* comment's commentCount the number of its direct replies.
C19_CountsCountComments ==
    NoneInFlight({"postComment", "reply"}) =>
       /\ \A p \in DOMAIN postsTable :
             postsTable[p].commentCount
             = Cardinality({c \in DOMAIN commentsTable :
                               commentsTable[c].postId = p})
       /\ \A c \in DOMAIN commentsTable :
             commentsTable[c].commentCount
             = Cardinality({r \in DOMAIN commentsTable :
                               commentsTable[r].parentCommentId = c})

\* a reply to a reply is stored and nothing is in flight: the post counts 3
\* comments, the first comment its one direct reply only
C19_Witness ==
    /\ Quiet
    /\ postsTable[1].commentCount = 3
    /\ commentsTable[1].commentCount = 1
    /\ \E c \in DOMAIN commentsTable :
          /\ commentsTable[c].depth = 2
          /\ commentsTable[commentsTable[c].parentCommentId].parentCommentId = 1

RECURSIVE Up(_, _)
\* the comment reached from c by following k parentCommentId links (NULL
\* when the links end before)
Up(c, k) ==
    IF k = 0 \/ c = NULL \/ c \notin DOMAIN commentsTable THEN c
    ELSE Up(commentsTable[c].parentCommentId, k - 1)

\* C20: the stored comments form a forest: a comment without parent has
\* depth 0; a comment with a parent names a stored comment inserted before
\* it (of lower id), of depth one less and of the same post; the parent
\* links of a comment lead to a top-level comment in exactly depth steps.
C20_CommentsFormForest ==
    \A c \in DOMAIN commentsTable :
       LET row == commentsTable[c]
       IN  /\ row.parentCommentId = NULL => row.depth = 0
           /\ row.parentCommentId # NULL =>
                 /\ row.parentCommentId \in DOMAIN commentsTable
                 /\ row.parentCommentId < c
                 /\ row.depth = commentsTable[row.parentCommentId].depth + 1
                 /\ row.postId = commentsTable[row.parentCommentId].postId
           /\ Up(c, row.depth) \in DOMAIN commentsTable
           /\ commentsTable[Up(c, row.depth)].parentCommentId = NULL
           /\ \A k \in 0..(row.depth - 1) :
                 commentsTable[Up(c, k)].parentCommentId # NULL

\* a chain of three: a reply to a reply of the first comment
C20_Witness ==
    \E c \in DOMAIN commentsTable :
       /\ commentsTable[c].depth = 2
       /\ Up(c, 1) # 1 /\ Up(c, 2) = 1 /\ Up(c, 3) = NULL

\* C16: CreatePost succeeds (201, the post stored as given) for a form with
\* a url or a content, be it content only or url only, and fails (400)
\* storing nothing for a form with neither; so every stored post has a url
\* or a content.
C16_CreatePostValidated ==
    [][\A t \in Txs :
          StepsFrom(t, "createPost", "validate") =>
             LET form == tx[t].query
                 new == DOMAIN postsTable' \ DOMAIN postsTable
             IN  /\ tx'[t].pc = "done"
                 /\ (form.url # NoText \/ form.content # NoText) =>
                       /\ tx'[t].status = 201
                       /\ Cardinality(new) = 1
                       /\ \A p \in new : /\ postsTable'[p].url = form.url
                                         /\ postsTable'[p].content = form.content
                                         /\ tx'[t].data[1].postId = p
                 /\ (form.url = NoText /\ form.content = NoText) =>
                       /\ tx'[t].status = 400
                       /\ Tables' = Tables
                 /\ \A p \in DOMAIN postsTable' :
                       postsTable'[p].url # NoText \/ postsTable'[p].content # NoText]_vars

\* a post of content only is stored, and a form with neither url nor
\* content has just been refused
C16_Witness ==
    /\ \E p \in DOMAIN postsTable :
          postsTable[p].url = NoText /\ postsTable[p].content # NoText
    /\ \E t \in Txs : tx[t].pc = "done" /\ tx[t].status = 400

\* C11: every pagination request a listing accepts has limit > 0 and
\* page >= 1, so that the offset is never negative and totalPages is a
\* natural number.
C11_AcceptedPaginationPositive ==
    \A t \in Txs :
       /\ (InFlight(t) /\ tx[t].kind \in ListingKinds) =>
             /\ tx[t].query.limit > 0 /\ tx[t].query.page >= 1
             /\ (tx[t].query.page - 1) * tx[t].query.limit >= 0
       /\ (tx[t].pc = "done" /\ tx[t].status = 200) =>
             /\ tx[t].data[1].pagination.totalPages # <<>>
             /\ tx[t].data[1].pagination.totalPages[1] \in Nat

\* the step in which listing t of one of the kinds answers with success
Answers(t, kinds) ==
    /\ tx[t].kind \in kinds /\ tx[t].pc = "find"
    /\ tx'[t].pc = "done" /\ tx'[t].status = 200
CommentListings == {"listPostComments", "listReplies"}

\* the sort column of a comment under a query, and whether comment a must
\* come before comment b when ties keep the order of insertion
SortKey(c, query) ==
    IF query.sortBy = "points" THEN commentsTable[c].points
    ELSE commentsTable[c].createdAt
StablyBefore(a, b, query) ==
    \/ IF query.order = "desc" THEN SortKey(a, query) > SortKey(b, query)
       ELSE SortKey(a, query) < SortKey(b, query)
    \/ SortKey(a, query) = SortKey(b, query) /\ a < b

\* C12: a listing of comments has its comments in the order asked for by
\* sortBy and order (for points and desc: points never increase), and
\* comments of equal sort column in the order of their insertion.
C12_ListingStablySorted ==
    [][\A t \in Txs :
          Answers(t, CommentListings) =>
             LET data == tx'[t].data[1].data
             IN  \A i, j \in 1..Len(data) :
                    i < j => StablyBefore(data[i].id, data[j].id, tx[t].query)]_vars

\* C13: with includeChildren, every comment of the listing of a post's
\* top-level comments carries min(2, number of its direct replies) children;
\* each child is a direct reply of it, the children are in the order of the
\* listing, and no reply left out sorts strictly before one that is carried;
\* so a comment with 5 replies carries exactly 2.
C13_ChildrenCappedAtTwo ==
    [][\A t \in Txs :
          (Answers(t, {"listPostComments"}) /\ tx[t].query.includeChildren) =>
             LET data == tx'[t].data[1].data
                 query == tx[t].query
                 Strictly(a, b) ==
                    IF query.order = "desc" THEN SortKey(a, query) > SortKey(b, query)
                    ELSE SortKey(a, query) < SortKey(b, query)
             IN  \A i \in 1..Len(data) :
                    LET replies == {c \in DOMAIN commentsTable :
                                      commentsTable[c].parentCommentId = data[i].id}
                        children == data[i].childComments
                        carried == {children[k].id : k \in 1..Len(children)}
                    IN  /\ Len(children) = IF Cardinality(replies) < 2
                                           THEN Cardinality(replies) ELSE 2
                        /\ Cardinality(carried) = Len(children)
                        /\ carried \subseteq replies
                        /\ \A k, l \in 1..Len(children) :
                              k < l => ~Strictly(children[l].id, children[k].id)
                        /\ \A c \in carried, o \in replies \ carried : ~Strictly(o, c)
                        /\ Cardinality(replies) = 5 => Len(children) = 2]_vars

\* comment 1 has 5 replies and was listed with 2 of them as its children
C13_Witness ==
    /\ Cardinality(RepliesWhere(1)) = 5
    /\ \E t \in Txs :
          /\ tx[t].pc = "done" /\ tx[t].status = 200
          /\ "pagination" \in DOMAIN tx[t].data[1]
          /\ \E i \in 1..Len(tx[t].data[1].data) :
                /\ tx[t].data[1].data[i].id = 1
                /\ "childComments" \in DOMAIN tx[t].data[1].data[i]
                /\ Len(tx[t].data[1].data[i].childComments) = 2

\* C14: a listing of comments answers whoever the viewer is, anonymous or
\* not; each comment listed shows its stored points, and its viewer-vote
\* projection holds at most one record, and holds one exactly when the
\* viewer is not anonymous and has a vote record on that comment.
C14_ViewerVoteProjection ==
    [][\A t \in Txs :
          (/\ tx[t].kind \in CommentListings /\ tx[t].pc = "find"
           /\ tx'[t] # tx[t]
           /\ tx[t].query.limit > 0 /\ tx[t].query.page >= 1) =>
             /\ tx'[t].pc = "done" /\ tx'[t].status = 200
             /\ LET data == tx'[t].data[1].data
                IN  \A i \in 1..Len(data) :
                       /\ data[i].points = commentsTable[data[i].id].points
                       /\ Len(data[i].commentUpVotes) <= 1
                       /\ data[i].commentUpVotes # <<>>
                          <=> /\ tx[t].user # Anonymous
                              /\ \E r \in commentUpvotesTable :
                                    /\ r.commentId = data[i].id
                                    /\ r.userId = tx[t].user
                       /\ \A k \in 1..Len(data[i].commentUpVotes) :
                             data[i].commentUpVotes[k].userId = tx[t].user]_vars

\* comment 2 has 1 point, from alice's vote, and was listed for the
\* anonymous viewer with that point and no vote record
C14_Witness ==
    /\ commentsTable[2].points = 1
    /\ \E r \in commentUpvotesTable : r.commentId = 2 /\ r.userId = "alice"
    /\ \E t \in Txs :
          /\ tx[t].pc = "done" /\ tx[t].status = 200
          /\ "pagination" \in DOMAIN tx[t].data[1]
          /\ \E i \in 1..Len(tx[t].data[1].data) :
                /\ tx[t].data[1].data[i].id = 2
                /\ "commentUpVotes" \in DOMAIN tx[t].data[1].data[i]
                /\ tx[t].data[1].data[i].commentUpVotes = <<>>
                /\ tx[t].data[1].data[i].points = 1

\* C15: every post answered by the listing of posts or by the reading of
\* one post has isUpvoted true exactly when a vote record of the viewer for
\* that post exists, so never for the anonymous viewer; and the listing has
\* each matching post once: no post twice, and all of them when they fit
\* the page.
C15_IsUpvotedIffVoted ==
    [][\A t \in Txs :
          LET Voted(post) == /\ tx[t].user # Anonymous
                             /\ \E r \in postUpvotesTable :
                                   r.postId = post /\ r.userId = tx[t].user
          IN  /\ Answers(t, {"listPosts"}) =>
                    LET data == tx'[t].data[1].data
                        query == tx[t].query
                        matching == ListPostsWhere(query)
                    IN  /\ \A i \in 1..Len(data) :
                              /\ data[i].id \in matching
                              /\ data[i].isUpvoted <=> Voted(data[i].id)
                        /\ \A i, j \in 1..Len(data) :
                              i # j => data[i].id # data[j].id
                        /\ (query.page = 1 /\ Cardinality(matching) <= query.limit)
                           => {data[i].id : i \in 1..Len(data)} = matching
              /\ (StepsFrom(t, "getPost", "select")
                  /\ tx[t].id \in DOMAIN postsTable) =>
                    /\ tx'[t].status = 200
                    /\ tx'[t].data[1].data.id = tx[t].id
                    /\ tx'[t].data[1].data.isUpvoted <=> Voted(tx[t].id)]_vars

\* post 1 has the votes of alice and of bob, and was listed once, upvoted,
\* together with post 2, not upvoted
C15_Witness ==
    /\ Cardinality({r \in postUpvotesTable : r.postId = 1}) = 2
    /\ \E t \in Txs :
          /\ tx[t].pc = "done" /\ tx[t].status = 200
          /\ "pagination" \in DOMAIN tx[t].data[1]
          /\ Len(tx[t].data[1].data) = 2
          /\ \E i, j \in 1..2 :
                /\ "isUpvoted" \in DOMAIN tx[t].data[1].data[i]
                /\ tx[t].data[1].data[i].id = 1 /\ tx[t].data[1].data[i].isUpvoted
                /\ tx[t].data[1].data[j].id = 2 /\ ~tx[t].data[1].data[j].isUpvoted

\* C17: the listing of the top-level comments of post P answers only
\* comments of post P without parent, the listing of the replies of comment
\* C only comments whose parent is C, no comment is in both scopes, and in
\* both the total behind totalPages is the number of comments of that
\* scope, whatever children and vote records they have.
C17_ListingScopesExact ==
    [][\A t \in Txs :
          Answers(t, CommentListings) =>
             LET data == tx'[t].data[1].data
                 query == tx[t].query
                 scope == IF tx[t].kind = "listPostComments"
                          THEN {c \in DOMAIN commentsTable :
                                   /\ commentsTable[c].parentCommentId = NULL
                                   /\ commentsTable[c].postId = tx[t].id}
                          ELSE {c \in DOMAIN commentsTable :
                                   commentsTable[c].parentCommentId = tx[t].id}
             IN  /\ \A i \in 1..Len(data) : data[i].id \in scope
                 /\ \A i, j \in 1..Len(data) : i # j => data[i].id # data[j].id
                 /\ query.limit > 0 =>
                       tx'[t].data[1].pagination.totalPages
                       = <<PagesFor(Cardinality(scope), query.limit)>>
                 /\ \A post \in DOMAIN postsTable, c \in DOMAIN commentsTable :
                       PostCommentsWhere(post) \cap RepliesWhere(c) = {}]_vars

\* the two top-level comments of post 1 were listed, on one page of one,
\* with children, while post 2 has a comment of its own, comment 1 has
\* replies and comment 2 has votes
C17_Witness ==
    /\ Cardinality(RepliesWhere(1)) >= 3
    /\ commentsTable[2].points = 2
    /\ \E t \in Txs :
          /\ tx[t].pc = "done" /\ tx[t].status = 200
          /\ "pagination" \in DOMAIN tx[t].data[1]
          /\ tx[t].data[1].pagination.totalPages = <<1>>
          /\ Len(tx[t].data[1].data) = 2
          /\ \A i \in 1..2 :
                /\ "childComments" \in DOMAIN tx[t].data[1].data[i]
                /\ tx[t].data[1].data[i].id \in {1, 2}
          /\ \E i \in 1..2 : Len(tx[t].data[1].data[i].childComments) = 2

(* --------------------------- aborted transactions ---------------------- *)
\* handler t answers with an error in this step: its transaction aborts
Aborts(t) ==
    InFlight(t) /\ tx'[t].pc = "done" /\ tx'[t].status \notin {200, 201}
\* handler t answers with success in this step
Succeeds(t) ==
    InFlight(t) /\ tx'[t].pc = "done" /\ tx'[t].status \in {200, 201}

\* C21: a write transaction that aborts leaves no partial effects: the step
\* in which it aborts leaves the posts, the comments and both vote ledgers as
\* they are, and no step other than the last step of a transaction that
\* succeeds changes any of them; so nothing an aborted transaction wrote
\* before it aborted is ever stored.
C21_AbortLeavesNoEffects ==
    [][/\ \A t \in Txs : Aborts(t) => Tables' = Tables
       /\ Tables' # Tables => \E t \in Txs : Succeeds(t)]_vars

\* a toggle aborted on the duplicate vote record after it had added a point
\* to post 1, and post 1 has the one point of the one vote record stored
C21_Witness ==
    /\ \E t \in Txs : tx[t].pc = "done" /\ tx[t].status = 500
    /\ postsTable[1].points = 1
    /\ Cardinality(postUpvotesTable) = 1

(* ------------------------------- frame --------------------------------- *)
\* row b is row a but for its points and its commentCount
CountersApart(a, b) ==
    [b EXCEPT !.points = a.points, !.commentCount = a.commentCount] = a
\* the vote records that are in one of the two ledgers only
Changed(before, after) == (before \ after) \cup (after \ before)

\* C22: no step deletes a post or a comment or changes a field of one other
\* than points and commentCount, and no step changes a vote record that
\* stays; a toggle that commits changes nothing but the points of its entity
\* and the vote record of its (entity, user) pair; a comment creation that
\* commits changes nothing but the new comment and the commentCount of its
\* post and of its parent.
C22_Frame ==
    [][/\ DOMAIN postsTable \subseteq DOMAIN postsTable'
       /\ DOMAIN commentsTable \subseteq DOMAIN commentsTable'
       /\ \A p \in DOMAIN postsTable : CountersApart(postsTable[p], postsTable'[p])
       /\ \A c \in DOMAIN commentsTable :
             CountersApart(commentsTable[c], commentsTable'[c])
       /\ \A r \in postUpvotesTable, q \in postUpvotesTable' : r.id = q.id => r = q
       /\ \A r \in commentUpvotesTable, q \in commentUpvotesTable' :
             r.id = q.id => r = q
       /\ \A t \in Txs :
             /\ Commits(t, "postUpvote") =>
                   /\ commentsTable' = commentsTable
                   /\ commentUpvotesTable' = commentUpvotesTable
                   /\ DOMAIN postsTable' = DOMAIN postsTable
                   /\ \A p \in DOMAIN postsTable :
                         /\ postsTable'[p].commentCount = postsTable[p].commentCount
                         /\ p # tx[t].id => postsTable'[p] = postsTable[p]
                   /\ \A r \in Changed(postUpvotesTable, postUpvotesTable') :
                         r.postId = tx[t].id /\ r.userId = tx[t].user
             /\ Commits(t, "commentUpvote") =>
                   /\ postsTable' = postsTable
                   /\ postUpvotesTable' = postUpvotesTable
                   /\ DOMAIN commentsTable' = DOMAIN commentsTable
                   /\ \A c \in DOMAIN commentsTable :
                         /\ commentsTable'[c].commentCount
                               = commentsTable[c].commentCount
                         /\ c # tx[t].id => commentsTable'[c] = commentsTable[c]
                   /\ \A r \in Changed(commentUpvotesTable, commentUpvotesTable') :
                         r.commentId = tx[t].id /\ r.userId = tx[t].user
             /\ (Commits(t, "postComment") \/ Commits(t, "reply")) =>
                   /\ postUpvotesTable' = postUpvotesTable
                   /\ commentUpvotesTable' = commentUpvotesTable
                   /\ DOMAIN postsTable' = DOMAIN postsTable
                   /\ Cardinality(NewComments) = 1
                   /\ \A new \in NewComments :
                         /\ \A p \in DOMAIN postsTable :
                               /\ postsTable'[p].points = postsTable[p].points
                               /\ p # commentsTable'[new].postId
                                    => postsTable'[p] = postsTable[p]
                         /\ \A c \in DOMAIN commentsTable :
                               /\ commentsTable'[c].points = commentsTable[c].points
                               /\ c # commentsTable'[new].parentCommentId
                                    => commentsTable'[c] = commentsTable[c]]_vars

\* starting with no vote on post 1 and its one comment, a toggle of post 1
\* and a reply to comment 1 have both committed
C22_Witness ==
    /\ ~hist.seed.votedPost
    /\ Cardinality(postUpvotesTable) = 1 /\ postsTable[1].points = 1
    /\ postsTable[1].commentCount = 2 /\ commentsTable[1].commentCount = 1

(* ------------------------- the answer of a toggle ---------------------- *)
\* C23: the answer of a toggle that succeeds describes the state it
\* commits: the count answered is the entity's points right after the
\* commit, and the answer shows upvoted exactly when the vote record of the
\* (entity, user) pair exists right after the commit, whatever other toggles
\* run at the same time.
C23_AnswerDescribesCommitted ==
    [][\A t \in Txs :
          ToggleAnswers(t) =>
             /\ tx'[t].data[1].count
                   = PointsIn(postsTable', commentsTable', tx[t].kind, tx[t].id)
             /\ Flag(tx[t].kind, tx'[t].data[1])
                   <=> VotedIn(postUpvotesTable', commentUpvotesTable',
                               tx[t].kind, tx[t].id, tx[t].user)]_vars

(* ------------------------------ termination ---------------------------- *)
\* the post a reply updates after its parent comment
ReplyPost(t) == tx[t].parentComment[1].postId

\* C24: the writing handlers run at once never wait for one another in a
\* circle: under fair scheduling, whenever handlers are in flight a moment
\* comes at which every handler that has started has ended, its transaction
\* committed or aborted; so no handler waits for ever.
C24_EveryTransactionEnds == ~Quiet ~> Quiet

\* a reply that holds the lock of its parent comment waits for the lock of
\* the owning post, which a toggle of the post holds
C24_Witness ==
    \E t \in Txs, o \in Txs :
       /\ tx[t].kind = "reply" /\ tx[t].pc = "updatePost"
       /\ tx[t].id \in DOMAIN tx[t].wComments
       /\ PostLocked(t, ReplyPost(t))
       /\ tx[o].kind = "postUpvote" /\ InFlight(o)
       /\ ReplyPost(t) \in DOMAIN tx[o].wPosts

====
